---- MODULE Spec2Model ----
(***************************************************************************)
(* Model of kernel/util/working.go: the workspace lock (tryLockWorkspace,  *)
(* IsWorkspaceLocked, UnlockWorkspace), the boot progress counter          *)
(* (IncBootProgress, SetBootDetails, SetBooted, GetBootProgressDetails)    *)
(* and the workspace resolver (initWorkspaceDir, ReadWorkspacePaths,       *)
(* WriteWorkspacePaths).                                                   *)
(*                                                                         *)
(* The specifications share the variables; each leaves the variables of    *)
(* the other parts unchanged:                                              *)
(*   SpecLock     service processes and probing processes on one workspace *)
(*   SpecRace     SpecLock's service processes, with no probe and no       *)
(*                TryLock overlapping an UnlockWorkspace                   *)
(*   SpecBoot     threads calling the boot progress operations             *)
(*   SpecAdvance  one IncBootProgress call per thread, from progress 0     *)
(*   SpecResolve  successive runs of initWorkspaceDir                      *)
(***************************************************************************)
EXTENDS Integers, Sequences, FiniteSets, TLC

VARIABLES
    \* ---- workspace lock (one workspace path, several processes)
    wsIsDir,         \* WorkspaceDir is an existing directory
    lockFile,        \* inode linked at WorkspaceDir/.lock, NoInode when absent
    WorkspaceLock,   \* per service process: the *flock.Flock [made, fh, l]
    pc,              \* per service process: position in its life
    exitCode,        \* per service process: code given to os.Exit, "" if none
    probeLock,       \* per probing process: the local f of IsWorkspaceLocked
    ppc,             \* per probing process: position inside IsWorkspaceLocked
    probeRet,        \* per probing process: last value IsWorkspaceLocked returned
    \* ---- boot progress (one process, several threads)
    bootProgress,    \* atomic.Int32
    bootDetails,     \* string, guarded by bootDetailsLock
    tpc,             \* per thread: position inside the call it is running
    tcall,           \* per thread: the arguments of the call it is running
    calls,           \* SpecAdvance: the delta of each thread's one call
    gprogress,       \* per thread: the local progress of GetBootProgressDetails
    gret,            \* per reading thread: what GetBootProgressDetails returned last
    held,            \* the pairs (bootProgress, bootDetails) there have been
    \* ---- workspace resolver (successive runs of one user's kernel)
    dirs,            \* the paths that are existing directories
    regFile,         \* ~/.config/siyuan/workspace.json: [exists, valid, paths]
    workspaceArg,    \* the --workspace argument of the run, <<>> when not given
    WorkspaceDir,    \* the active workspace of the run
    rpc,             \* position of the run: "init", "resolved" or "exited"
    rexit,           \* code the run gave to os.Exit, "" if none
    regBefore,       \* regFile as the run found it
    dirsBefore,      \* dirs as the run found them
    rfail,           \* the step at which the run exited, "" if none
    \* ---- sessions (one kernel, the sessions of its clients)
    sessions,        \* per session: SessionData.Workspaces, a map to entries or nil
    heap,            \* the WorkspaceSession values the entries point to
    WrongAuthCount,  \* var WrongAuthCount int
    sop,             \* the last session operation: [op, s, dir, ret]
    \* ---- boot of several kernels on one workspace
    kpc,             \* per kernel: position in Boot and main
    inContainer,     \* what isRunningInDockerContainer finds on this host
    bypassEnv,       \* the value of SIYUAN_ACCESS_AUTH_CODE_BYPASS on this host
    RunInContainer,  \* per kernel: var RunInContainer
    SiyuanAccessAuthCodeBypass, \* per kernel: var SiyuanAccessAuthCodeBypass
    AccessAuthCode,  \* per kernel: var AccessAuthCode
    kernelProgress,  \* per kernel: its bootProgress
    treeDirs,        \* the directories of the workspace tree that exist
    tmpOs,           \* the kernels whose files lie in temp/os
    tmpRepo,         \* temp/repo exists
    removed,         \* per kernel: what it has removed from the workspace
    created,         \* per kernel: the directories it has created in the workspace
    \* ---- saving and loading the registry
    saveArg,         \* the sequence given to WriteWorkspacePaths
    saved,           \* the content of the file after each successful save
    loadRet          \* what ReadWorkspacePaths returned, NotLoaded before

lockVars == <<wsIsDir, lockFile, WorkspaceLock, pc, exitCode, probeLock, ppc, probeRet>>

bootVars == <<bootProgress, bootDetails, tpc, tcall, calls, gprogress, gret, held>>

resolveVars == <<dirs, regFile, workspaceArg, WorkspaceDir, rpc, rexit, regBefore, dirsBefore, rfail>>

sessionVars == <<sessions, heap, WrongAuthCount, sop>>

kernelVars ==
    <<kpc, inContainer, bypassEnv, RunInContainer, SiyuanAccessAuthCodeBypass, AccessAuthCode,
      kernelProgress, treeDirs, tmpOs, tmpRepo, removed, created>>

saveVars == <<saveArg, saved, loadRet>>

vars == <<lockVars, bootVars, resolveVars, sessionVars, kernelVars, saveVars>>

\* -------------------------------------------------------------- bounds
NServers == 2
NProbers == 1
NRacers == 3
NThreads == 2
NCallers == 3
MaxRegLen == 2
NKernels == 2
MaxSaveLen == 3
MaxSaves == 2
NSessions == 1
MaxWrongAuthCount == 120

\* The service processes (kernels booting on the workspace) and the probing
\* processes (kernels asking IsWorkspaceLocked about it) of SpecLock.
Servers == 1..NServers
Probers == 1..NProbers
\* The service processes of SpecRace.
Racers == 1..NRacers
\* The processes of the specification being run.
Procs == DOMAIN pc
ProbeProcs == DOMAIN ppc

\* ============================================================== the lock
NoInode == 0
\* Every open handle and the linked marker file can pin one inode each.
Inodes == 1..(Cardinality(Procs) + Cardinality(ProbeProcs) + 1)

ExitCodeWorkspaceLocked == "ExitCodeWorkspaceLocked"
ExitCodeInitWorkspaceErr == "ExitCodeInitWorkspaceErr"

\* flock.New(path): a handle with no open file and no lock.
FlockNew == [made |-> TRUE, fh |-> NoInode, l |-> FALSE]
\* var WorkspaceLock *flock.Flock (nil until tryLockWorkspace runs)
NilFlock == [made |-> FALSE, fh |-> NoInode, l |-> FALSE]

InodeInUse(i) ==
    \/ lockFile = i
    \/ \E p \in Procs : WorkspaceLock[p].fh = i
    \/ \E q \in ProbeProcs : probeLock[q].fh = i

\* The inode a newly created file gets: one that nothing refers to any more.
FreshInode == CHOOSE i \in Inodes : ~InodeInUse(i) /\ \A j \in 1..(i - 1) : InodeInUse(j)

\* os.OpenFile(path, O_CREATE|O_RDONLY): the linked inode, created when absent.
OpenCreate == IF lockFile = NoInode THEN FreshInode ELSE lockFile

\* flock(fd, LOCK_EX|LOCK_NB) succeeds iff no other open file description holds
\* a lock on the same inode.
FlockFree(i) ==
    /\ \A p \in Procs : ~(WorkspaceLock[p].fh = i /\ WorkspaceLock[p].l)
    /\ \A q \in ProbeProcs : ~(probeLock[q].fh = i /\ probeLock[q].l)

\* A service process is started (Boot has not reached tryLockWorkspace yet).
Launch(p) ==
    /\ pc[p] \in {"exited", "stopped"}
    /\ pc' = [pc EXCEPT ![p] = "start"]
    /\ WorkspaceLock' = [WorkspaceLock EXCEPT ![p] = NilFlock]
    /\ exitCode' = [exitCode EXCEPT ![p] = ""]
    /\ UNCHANGED <<wsIsDir, lockFile, probeLock, ppc, probeRet>>
    /\ UNCHANGED <<bootVars, resolveVars, sessionVars, kernelVars, saveVars>>

\* tryLockWorkspace, first half: flock.New and the open(2) inside TryLock.
\* A failing open makes TryLock return an error: logged, then os.Exit.
TryLockOpen(p) ==
    /\ pc[p] = "start"
    /\ IF wsIsDir
       THEN /\ WorkspaceLock' = [WorkspaceLock EXCEPT ![p] = [FlockNew EXCEPT !.fh = OpenCreate]]
            /\ lockFile' = OpenCreate
            /\ pc' = [pc EXCEPT ![p] = "opened"]
            /\ UNCHANGED exitCode
       ELSE /\ WorkspaceLock' = [WorkspaceLock EXCEPT ![p] = FlockNew]
            /\ pc' = [pc EXCEPT ![p] = "exited"]
            /\ exitCode' = [exitCode EXCEPT ![p] = ExitCodeWorkspaceLocked]
            /\ UNCHANGED lockFile
    /\ UNCHANGED <<wsIsDir, probeLock, ppc, probeRet>>
    /\ UNCHANGED <<bootVars, resolveVars, sessionVars, kernelVars, saveVars>>

\* The mutant of tryLockWorkspace's second half: the result of TryLock is ignored.
TryLockFlockIgnoringResult(p) ==
    /\ pc[p] = "opened"
    /\ WorkspaceLock' = [WorkspaceLock EXCEPT ![p].l = TRUE]
    /\ pc' = [pc EXCEPT ![p] = "serving"]
    /\ UNCHANGED <<wsIsDir, lockFile, exitCode, probeLock, ppc, probeRet>>
    /\ UNCHANGED <<bootVars, resolveVars, sessionVars, kernelVars, saveVars>>

\* tryLockWorkspace, second half: the flock(2) inside TryLock; ok returns, anything
\* else closes the file and exits with ExitCodeWorkspaceLocked.
TryLockFlock(p) ==
    /\ pc[p] = "opened"
    /\ IF FlockFree(WorkspaceLock[p].fh)
       THEN /\ WorkspaceLock' = [WorkspaceLock EXCEPT ![p].l = TRUE]
            /\ pc' = [pc EXCEPT ![p] = "serving"]
            /\ UNCHANGED exitCode
       ELSE /\ WorkspaceLock' = [WorkspaceLock EXCEPT ![p].fh = NoInode]
            /\ pc' = [pc EXCEPT ![p] = "exited"]
            /\ exitCode' = [exitCode EXCEPT ![p] = ExitCodeWorkspaceLocked]
    /\ UNCHANGED <<wsIsDir, lockFile, probeLock, ppc, probeRet>>
    /\ UNCHANGED <<bootVars, resolveVars, sessionVars, kernelVars, saveVars>>

\* UnlockWorkspace with nil == WorkspaceLock: returns at once.
UnlockWorkspaceNil(p) ==
    /\ pc[p] = "start"
    /\ ~WorkspaceLock[p].made
    /\ UNCHANGED lockVars
    /\ UNCHANGED <<bootVars, resolveVars, sessionVars, kernelVars, saveVars>>

\* UnlockWorkspace, first half: WorkspaceLock.Unlock() (LOCK_UN, close). The
\* branch for an error of Unlock is left out: unlocking an open, locked file
\* does not fail.
UnlockWorkspaceUnlock(p) ==
    /\ pc[p] = "serving"
    /\ WorkspaceLock' = [WorkspaceLock EXCEPT ![p].l = FALSE, ![p].fh = NoInode]
    /\ pc' = [pc EXCEPT ![p] = "unlocked"]
    /\ UNCHANGED <<wsIsDir, lockFile, exitCode, probeLock, ppc, probeRet>>
    /\ UNCHANGED <<bootVars, resolveVars, sessionVars, kernelVars, saveVars>>

\* UnlockWorkspace, second half: os.Remove of the .lock path, whatever inode is
\* linked there now; a missing file is an error that is logged.
UnlockWorkspaceRemove(p) ==
    /\ pc[p] = "unlocked"
    /\ lockFile' = NoInode
    /\ pc' = [pc EXCEPT ![p] = "stopped"]
    /\ UNCHANGED <<wsIsDir, WorkspaceLock, exitCode, probeLock, ppc, probeRet>>
    /\ UNCHANGED <<bootVars, resolveVars, sessionVars, kernelVars, saveVars>>

\* IsWorkspaceLocked: the two existence checks.
ProbeStat(q) ==
    /\ ppc[q] = "idle"
    /\ IF ~wsIsDir \/ lockFile = NoInode
       THEN /\ probeRet' = [probeRet EXCEPT ![q] = FALSE]
            /\ UNCHANGED ppc
       ELSE /\ ppc' = [ppc EXCEPT ![q] = "checked"]
            /\ UNCHANGED probeRet
    /\ UNCHANGED <<wsIsDir, lockFile, WorkspaceLock, pc, exitCode, probeLock>>
    /\ UNCHANGED <<bootVars, resolveVars, sessionVars, kernelVars, saveVars>>

\* IsWorkspaceLocked: flock.New and the open(2) inside f.TryLock.
ProbeOpen(q) ==
    /\ ppc[q] = "checked"
    /\ probeLock' = [probeLock EXCEPT ![q] = [FlockNew EXCEPT !.fh = OpenCreate]]
    /\ lockFile' = OpenCreate
    /\ ppc' = [ppc EXCEPT ![q] = "opened"]
    /\ UNCHANGED <<wsIsDir, WorkspaceLock, pc, exitCode, probeRet>>
    /\ UNCHANGED <<bootVars, resolveVars, sessionVars, kernelVars, saveVars>>

\* IsWorkspaceLocked: the flock(2) inside f.TryLock; not ok returns true (the
\* deferred Unlock finds nothing locked), ok goes on to the deferred Unlock.
ProbeFlock(q) ==
    /\ ppc[q] = "opened"
    /\ IF FlockFree(probeLock[q].fh)
       THEN /\ probeLock' = [probeLock EXCEPT ![q].l = TRUE]
            /\ ppc' = [ppc EXCEPT ![q] = "locked"]
            /\ UNCHANGED probeRet
       ELSE /\ probeLock' = [probeLock EXCEPT ![q].fh = NoInode]
            /\ ppc' = [ppc EXCEPT ![q] = "idle"]
            /\ probeRet' = [probeRet EXCEPT ![q] = TRUE]
    /\ UNCHANGED <<wsIsDir, lockFile, WorkspaceLock, pc, exitCode>>
    /\ UNCHANGED <<bootVars, resolveVars, sessionVars, kernelVars, saveVars>>

\* The mutant of IsWorkspaceLocked's return: the deferred f.Unlock() is missing.
ProbeReturn(q) ==
    /\ ppc[q] = "locked"
    /\ ppc' = [ppc EXCEPT ![q] = "idle"]
    /\ probeRet' = [probeRet EXCEPT ![q] = FALSE]
    /\ UNCHANGED <<wsIsDir, lockFile, WorkspaceLock, pc, exitCode, probeLock>>
    /\ UNCHANGED <<bootVars, resolveVars, sessionVars, kernelVars, saveVars>>

\* IsWorkspaceLocked: return false, running the deferred f.Unlock().
ProbeUnlock(q) ==
    /\ ppc[q] = "locked"
    /\ probeLock' = [probeLock EXCEPT ![q].l = FALSE, ![q].fh = NoInode]
    /\ ppc' = [ppc EXCEPT ![q] = "idle"]
    /\ probeRet' = [probeRet EXCEPT ![q] = FALSE]
    /\ UNCHANGED <<wsIsDir, lockFile, WorkspaceLock, pc, exitCode>>
    /\ UNCHANGED <<bootVars, resolveVars, sessionVars, kernelVars, saveVars>>

\* The workspace is free: no process has the marker file open; the file itself
\* may be left over from an earlier run, and the directory may be missing.
InitProcs(S, P) ==
    /\ wsIsDir \in BOOLEAN
    /\ lockFile \in (IF wsIsDir THEN {NoInode, 1} ELSE {NoInode})
    /\ WorkspaceLock = [p \in S |-> NilFlock]
    /\ pc = [p \in S |-> "start"]
    /\ exitCode = [p \in S |-> ""]
    /\ probeLock = [q \in P |-> NilFlock]
    /\ ppc = [q \in P |-> "idle"]
    /\ probeRet = [q \in P |-> FALSE]

\* The part of the state a specification does not use.
IdleLock ==
    /\ wsIsDir = TRUE /\ lockFile = NoInode
    /\ WorkspaceLock = <<>> /\ pc = <<>> /\ exitCode = <<>>
    /\ probeLock = <<>> /\ ppc = <<>> /\ probeRet = <<>>

IdleBoot ==
    /\ bootProgress = 0 /\ bootDetails = <<>>
    /\ tpc = <<>> /\ tcall = <<>> /\ calls = <<>>
    /\ gprogress = <<>> /\ gret = <<>> /\ held = {}

IdleResolve ==
    /\ dirs = {} /\ regFile = [exists |-> FALSE, valid |-> FALSE, paths |-> <<>>]
    /\ workspaceArg = <<>> /\ WorkspaceDir = <<>>
    /\ rpc = "idle" /\ rexit = "" /\ rfail = ""
    /\ regBefore = [exists |-> FALSE, valid |-> FALSE, paths |-> <<>>]
    /\ dirsBefore = {}

IdleSession ==
    /\ sessions = <<>> /\ heap = <<>>
    /\ WrongAuthCount = 0
    /\ sop = [op |-> "", s |-> 0, dir |-> <<>>, ret |-> 0]

IdleKernel ==
    /\ kpc = <<>> /\ inContainer = FALSE /\ bypassEnv = ""
    /\ RunInContainer = <<>> /\ SiyuanAccessAuthCodeBypass = <<>> /\ AccessAuthCode = <<>>
    /\ kernelProgress = <<>>
    /\ treeDirs = {} /\ tmpOs = {} /\ tmpRepo = FALSE
    /\ removed = <<>> /\ created = <<>>

\* ReadWorkspacePaths has not been called.
NotLoaded == [called |-> FALSE, ret |-> <<>>, err |-> FALSE]

IdleSave == saveArg = <<>> /\ saved = <<>> /\ loadRet = NotLoaded

InitLock == InitProcs(Servers, Probers) /\ IdleBoot /\ IdleResolve /\ IdleSession /\ IdleKernel /\ IdleSave

NextLock ==
    \/ \E p \in Servers : Launch(p)
    \/ \E p \in Servers : TryLockOpen(p)
    \/ \E p \in Servers : TryLockFlock(p)
    \/ \E p \in Servers : UnlockWorkspaceNil(p)
    \/ \E p \in Servers : UnlockWorkspaceUnlock(p)
    \/ \E p \in Servers : UnlockWorkspaceRemove(p)
    \/ \E q \in Probers : ProbeStat(q)
    \/ \E q \in Probers : ProbeOpen(q)
    \/ \E q \in Probers : ProbeFlock(q)
    \/ \E q \in Probers : ProbeUnlock(q)

SpecLock == InitLock /\ [][NextLock]_vars

\* SpecRace: service processes only, and no TryLock runs while an UnlockWorkspace
\* is between its Unlock and its Remove, nor the other way round.
RaceTryLockOpen(p) ==
    /\ \A r \in Procs : pc[r] # "unlocked"
    /\ TryLockOpen(p)

RaceUnlock(p) ==
    /\ \A r \in Procs : pc[r] # "opened"
    /\ UnlockWorkspaceUnlock(p)

InitRace ==
    /\ InitProcs(Racers, {}) /\ wsIsDir
    /\ IdleBoot /\ IdleResolve /\ IdleSession /\ IdleKernel /\ IdleSave

NextRace ==
    \/ \E p \in Racers : Launch(p)
    \/ \E p \in Racers : RaceTryLockOpen(p)
    \/ \E p \in Racers : TryLockFlock(p)
    \/ \E p \in Racers : RaceUnlock(p)
    \/ \E p \in Racers : UnlockWorkspaceRemove(p)

SpecRace == InitRace /\ [][NextRace]_vars

\* ============================================================== boot progress
Ver == "3.1.11"

\* The deltas and the texts the callers pass.
Deltas == {30, 40, 70}
Texts == {"Booting kernel...", "Initializing..."}

Threads == 1..NThreads
Callers == 1..NCallers
\* The threads of the specification being run.
Thr == DOMAIN tpc

\* The largest value of the atomic.Int32 that holds the progress.
MaxInt32 == 2147483647

\* atomic.Int32.Add: the sum of two int32 values, wrapping around in two's
\* complement (written so that no intermediate value leaves the int32 range).
Add32(a, b) ==
    IF b > 0 /\ a > MaxInt32 - b
    THEN (a - MaxInt32 - 1) + (b - MaxInt32 - 1)
    ELSE IF b < 0 /\ a < (-MaxInt32 - 1) - b
         THEN (a + MaxInt32 + 1) + (b + MaxInt32 + 1)
         ELSE a + b

NoCall == [delta |-> 0, details |-> ""]

\* func IsBooted() bool
IsBooted == 100 <= bootProgress

\* func GetBootProgress() int32
GetBootProgress == bootProgress

\* What a thread that has not called GetBootProgressDetails has been returned.
NoSnapshot == [returned |-> FALSE, progress |-> 0, details |-> <<>>]

\* The record of the pairs the boot state has held, kept where there are
\* threads that call GetBootProgressDetails.
Observe ==
    held' = IF DOMAIN gret = {} THEN held
            ELSE held \cup {<<bootProgress', bootDetails'>>}

\* The mutant of setBootDetails: the version is not put in front.
setBootDetailsPlain(details) == bootDetails' = <<details>>

\* func setBootDetails(details string): bootDetails = "v" + Ver + " " + details,
\* under bootDetailsLock.
setBootDetails(details) == bootDetails' = <<"v", Ver, " ", details>>

\* A thread reaches a call of IncBootProgress(progress, details).
IncBootProgressCall(t, progress, details) ==
    /\ tpc[t] = "idle"
    /\ tpc' = [tpc EXCEPT ![t] = "inc_guard"]
    /\ tcall' = [tcall EXCEPT ![t] = [delta |-> progress, details |-> details]]
    /\ UNCHANGED <<bootProgress, bootDetails, calls>>
    /\ UNCHANGED <<gprogress, gret>> /\ Observe
    /\ UNCHANGED <<lockVars, resolveVars, sessionVars, kernelVars, saveVars>>

\* IncBootProgress: if 100 <= bootProgress.Load() { return }
IncBootProgressGuard(t) ==
    /\ tpc[t] = "inc_guard"
    /\ IF 100 <= bootProgress
       THEN /\ tpc' = [tpc EXCEPT ![t] = "idle"]
            /\ tcall' = [tcall EXCEPT ![t] = NoCall]
       ELSE /\ tpc' = [tpc EXCEPT ![t] = "inc_add"]
            /\ UNCHANGED tcall
    /\ UNCHANGED <<bootProgress, bootDetails, calls>>
    /\ UNCHANGED <<gprogress, gret>> /\ Observe
    /\ UNCHANGED <<lockVars, resolveVars, sessionVars, kernelVars, saveVars>>

\* The mutant of IncBootProgress's addition: the delta is stored, not added.
IncBootProgressStore(t) ==
    /\ tpc[t] = "inc_add"
    /\ bootProgress' = tcall[t].delta
    /\ tpc' = [tpc EXCEPT ![t] = "inc_details"]
    /\ tcall' = [tcall EXCEPT ![t].delta = 0]
    /\ UNCHANGED <<bootDetails, calls>>
    /\ UNCHANGED <<gprogress, gret>> /\ Observe
    /\ UNCHANGED <<lockVars, resolveVars, sessionVars, kernelVars, saveVars>>

\* IncBootProgress: bootProgress.Add(progress)
IncBootProgressAdd(t) ==
    /\ tpc[t] = "inc_add"
    /\ bootProgress' = Add32(bootProgress, tcall[t].delta)
    /\ tpc' = [tpc EXCEPT ![t] = "inc_details"]
    /\ tcall' = [tcall EXCEPT ![t].delta = 0]
    /\ UNCHANGED <<bootDetails, calls>>
    /\ UNCHANGED <<gprogress, gret>> /\ Observe
    /\ UNCHANGED <<lockVars, resolveVars, sessionVars, kernelVars, saveVars>>

\* IncBootProgress: setBootDetails(details)
IncBootProgressDetails(t) ==
    /\ tpc[t] = "inc_details"
    /\ setBootDetails(tcall[t].details)
    /\ tpc' = [tpc EXCEPT ![t] = "idle"]
    /\ tcall' = [tcall EXCEPT ![t] = NoCall]
    /\ UNCHANGED <<bootProgress, calls>>
    /\ UNCHANGED <<gprogress, gret>> /\ Observe
    /\ UNCHANGED <<lockVars, resolveVars, sessionVars, kernelVars, saveVars>>

\* SetBootDetails: if 100 <= bootProgress.Load() { return }
SetBootDetailsGuard(t, details) ==
    /\ tpc[t] = "idle"
    /\ IF 100 <= bootProgress
       THEN UNCHANGED <<tpc, tcall>>
       ELSE /\ tpc' = [tpc EXCEPT ![t] = "set_details"]
            /\ tcall' = [tcall EXCEPT ![t] = [delta |-> 0, details |-> details]]
    /\ UNCHANGED <<bootProgress, bootDetails, calls>>
    /\ UNCHANGED <<gprogress, gret>> /\ Observe
    /\ UNCHANGED <<lockVars, resolveVars, sessionVars, kernelVars, saveVars>>

\* SetBootDetails: setBootDetails(details)
SetBootDetailsSet(t) ==
    /\ tpc[t] = "set_details"
    /\ setBootDetails(tcall[t].details)
    /\ tpc' = [tpc EXCEPT ![t] = "idle"]
    /\ tcall' = [tcall EXCEPT ![t] = NoCall]
    /\ UNCHANGED <<bootProgress, calls>>
    /\ UNCHANGED <<gprogress, gret>> /\ Observe
    /\ UNCHANGED <<lockVars, resolveVars, sessionVars, kernelVars, saveVars>>

\* SetBooted: setBootDetails("Finishing boot...")
SetBootedDetails(t) ==
    /\ tpc[t] = "idle"
    /\ setBootDetails("Finishing boot...")
    /\ tpc' = [tpc EXCEPT ![t] = "booted_store"]
    /\ UNCHANGED <<bootProgress, tcall, calls>>
    /\ UNCHANGED <<gprogress, gret>> /\ Observe
    /\ UNCHANGED <<lockVars, resolveVars, sessionVars, kernelVars, saveVars>>

\* The mutant of SetBooted's store: the counter is reset instead of set to 100.
SetBootedStoreZero(t) ==
    /\ tpc[t] = "booted_store"
    /\ bootProgress' = 0
    /\ tpc' = [tpc EXCEPT ![t] = "idle"]
    /\ UNCHANGED <<bootDetails, tcall, calls>>
    /\ UNCHANGED <<gprogress, gret>> /\ Observe
    /\ UNCHANGED <<lockVars, resolveVars, sessionVars, kernelVars, saveVars>>

\* SetBooted: bootProgress.Store(100)
SetBootedStore(t) ==
    /\ tpc[t] = "booted_store"
    /\ bootProgress' = 100
    /\ tpc' = [tpc EXCEPT ![t] = "idle"]
    /\ UNCHANGED <<bootDetails, tcall, calls>>
    /\ UNCHANGED <<gprogress, gret>> /\ Observe
    /\ UNCHANGED <<lockVars, resolveVars, sessionVars, kernelVars, saveVars>>

InitBoot ==
    /\ bootProgress = 0
    /\ bootDetails = <<>>
    /\ tpc = [t \in Threads |-> "idle"]
    /\ tcall = [t \in Threads |-> NoCall]
    /\ calls = <<>>
    /\ gprogress = <<>> /\ gret = <<>> /\ held = {}
    /\ IdleLock /\ IdleResolve /\ IdleSession /\ IdleKernel /\ IdleSave

NextBoot ==
    \/ \E t \in Threads, d \in Deltas, s \in Texts : IncBootProgressCall(t, d, s)
    \/ \E t \in Threads : IncBootProgressGuard(t)
    \/ \E t \in Threads : IncBootProgressAdd(t)
    \/ \E t \in Threads : IncBootProgressDetails(t)
    \/ \E t \in Threads, s \in Texts : SetBootDetailsGuard(t, s)
    \/ \E t \in Threads : SetBootDetailsSet(t)
    \/ \E t \in Threads : SetBootedDetails(t)
    \/ \E t \in Threads : SetBootedStore(t)

SpecBoot == InitBoot /\ [][NextBoot]_vars

\* SpecMain: the boot thread alone, one call after the other.
MainThread == {1}

InitMain ==
    /\ bootProgress = 0
    /\ bootDetails = <<>>
    /\ tpc = [t \in MainThread |-> "idle"]
    /\ tcall = [t \in MainThread |-> NoCall]
    /\ calls = <<>>
    /\ gprogress = <<>> /\ gret = <<>> /\ held = {}
    /\ IdleLock /\ IdleResolve /\ IdleSession /\ IdleKernel /\ IdleSave

NextMain ==
    \/ \E t \in MainThread, d \in Deltas, s \in Texts : IncBootProgressCall(t, d, s)
    \/ \E t \in MainThread : IncBootProgressGuard(t)
    \/ \E t \in MainThread : IncBootProgressAdd(t)
    \/ \E t \in MainThread : IncBootProgressDetails(t)
    \/ \E t \in MainThread, s \in Texts : SetBootDetailsGuard(t, s)
    \/ \E t \in MainThread : SetBootDetailsSet(t)
    \/ \E t \in MainThread : SetBootedDetails(t)
    \/ \E t \in MainThread : SetBootedStore(t)

SpecMain == InitMain /\ [][NextMain]_vars

\* SpecAdvance: every caller runs one IncBootProgress, all started at progress 0.
InitAdvance ==
    /\ bootProgress = 0
    /\ bootDetails = <<>>
    /\ calls \in [Callers -> Deltas]
    /\ tpc = [t \in Callers |-> "inc_guard"]
    /\ tcall = [t \in Callers |-> [delta |-> calls[t], details |-> "Booting kernel..."]]
    /\ gprogress = <<>> /\ gret = <<>> /\ held = {}
    /\ IdleLock /\ IdleResolve /\ IdleSession /\ IdleKernel /\ IdleSave

NextAdvance ==
    \/ \E t \in Callers : IncBootProgressGuard(t)
    \/ \E t \in Callers : IncBootProgressAdd(t)
    \/ \E t \in Callers : IncBootProgressDetails(t)

SpecAdvance == InitAdvance /\ [][NextAdvance]_vars

\* SpecSnapshot: the boot thread makes the calls of SpecMain while the other
\* threads call GetBootProgressDetails.
\* GetBootProgressDetails: progress = bootProgress.Load()
GetBootProgressDetailsLoad(t) ==
    /\ tpc[t] = "idle"
    /\ gprogress' = [gprogress EXCEPT ![t] = bootProgress]
    /\ tpc' = [tpc EXCEPT ![t] = "get_details"]
    /\ UNCHANGED <<bootProgress, bootDetails, tcall, calls, gret>> /\ Observe
    /\ UNCHANGED <<lockVars, resolveVars, sessionVars, kernelVars, saveVars>>

\* GetBootProgressDetails: details = bootDetails under bootDetailsLock; return
GetBootProgressDetailsRead(t) ==
    /\ tpc[t] = "get_details"
    /\ gret' = [gret EXCEPT ![t] =
           [returned |-> TRUE, progress |-> gprogress[t], details |-> bootDetails]]
    /\ tpc' = [tpc EXCEPT ![t] = "idle"]
    /\ UNCHANGED <<bootProgress, bootDetails, tcall, calls, gprogress>> /\ Observe
    /\ UNCHANGED <<lockVars, resolveVars, sessionVars, kernelVars, saveVars>>

InitSnapshot ==
    /\ bootProgress = 0
    /\ bootDetails = <<>>
    /\ tpc = [t \in Threads |-> "idle"]
    /\ tcall = [t \in Threads |-> NoCall]
    /\ calls = <<>>
    /\ gprogress = [t \in Threads |-> 0]
    /\ gret = [t \in Threads |-> NoSnapshot]
    /\ held = {<<bootProgress, bootDetails>>}
    /\ IdleLock /\ IdleResolve /\ IdleSession /\ IdleKernel /\ IdleSave

\* The threads that ask for the progress while the boot thread boots.
Pollers == Threads \ MainThread

NextSnapshot ==
    \/ \E t \in MainThread, d \in Deltas, s \in Texts : IncBootProgressCall(t, d, s)
    \/ \E t \in MainThread : IncBootProgressGuard(t)
    \/ \E t \in MainThread : IncBootProgressAdd(t)
    \/ \E t \in MainThread : IncBootProgressDetails(t)
    \/ \E t \in MainThread, s \in Texts : SetBootDetailsGuard(t, s)
    \/ \E t \in MainThread : SetBootDetailsSet(t)
    \/ \E t \in MainThread : SetBootedDetails(t)
    \/ \E t \in MainThread : SetBootedStore(t)
    \/ \E t \in Pollers : GetBootProgressDetailsLoad(t)
    \/ \E t \in Pollers : GetBootProgressDetailsRead(t)

SpecSnapshot == InitSnapshot /\ [][NextSnapshot]_vars

\* ============================================================== the resolver
\* A path is the sequence of its characters; "" is the empty sequence.
EmptyPath == <<>>

\* defaultWorkspaceDir := filepath.Join(HomeDir, "SiYuan")
defaultWorkspaceDir == <<"D">>

\* The paths of the model: two workspaces, one of them also as it is stored with
\* a trailing blank, and the default.
Paths == {<<"A">>, <<"B">>, <<"A", " ">>, defaultWorkspaceDir}

\* The registry files a run can find: none, an unreadable or unparsable one, or
\* a JSON array of paths, which WriteWorkspacePaths leaves without duplicates.
NoRegistry == [exists |-> FALSE, valid |-> FALSE, paths |-> <<>>]
BadRegistry == [exists |-> TRUE, valid |-> FALSE, paths |-> <<>>]
PathSeqs == UNION {[1..n -> Paths] : n \in 0..MaxRegLen}
Registries ==
    {NoRegistry, BadRegistry} \cup
    {[exists |-> TRUE, valid |-> TRUE, paths |-> ps] :
        ps \in {q \in PathSeqs : \A i, j \in 1..Len(q) : q[i] = q[j] => i = j}}

\* gulu.File.IsDir
IsDir(ds, path) == path \in ds

\* strings.TrimRight(d, " \t\n")
RECURSIVE TrimRight(_)
TrimRight(d) ==
    IF Len(d) > 0 /\ d[Len(d)] \in {" ", "\t", "\n"}
    THEN TrimRight(SubSeq(d, 1, Len(d) - 1))
    ELSE d

\* The mutant of RemoveDuplicatedElem: each element once, at its last position.
RECURSIVE RemoveDuplicatedElemKeepLast(_)
RemoveDuplicatedElemKeepLast(slice) ==
    IF slice = <<>> THEN <<>>
    ELSE LET back == RemoveDuplicatedElemKeepLast(Tail(slice))
         IN IF \E i \in 1..Len(back) : back[i] = Head(slice) THEN back ELSE <<Head(slice)>> \o back

\* gulu.Str.RemoveDuplicatedElem: each element once, at its first position.
RECURSIVE RemoveDuplicatedElem(_)
RemoveDuplicatedElem(slice) ==
    IF slice = <<>> THEN <<>>
    ELSE LET front == RemoveDuplicatedElem(SubSeq(slice, 1, Len(slice) - 1))
             last == slice[Len(slice)]
         IN IF \E i \in 1..Len(front) : front[i] = last THEN front ELSE Append(front, last)

\* The mutant of ReadWorkspacePaths's loop: entries that are no directory are kept.
RECURSIVE TrimOnly(_, _)
TrimOnly(ret, ds) ==
    IF ret = <<>> THEN <<>>
    ELSE Append(TrimOnly(SubSeq(ret, 1, Len(ret) - 1), ds), TrimRight(ret[Len(ret)]))

\* ReadWorkspacePaths's loop: trim each entry, keep it if it is a directory.
RECURSIVE TrimAndKeepDirs(_, _)
TrimAndKeepDirs(ret, ds) ==
    IF ret = <<>> THEN <<>>
    ELSE LET tmp == TrimAndKeepDirs(SubSeq(ret, 1, Len(ret) - 1), ds)
             d == TrimRight(ret[Len(ret)])
         IN IF IsDir(ds, d) THEN Append(tmp, d) ELSE tmp

\* func ReadWorkspacePaths() (ret []string, err error)
ReadWorkspacePaths(reg, ds) ==
    IF ~reg.exists \/ ~reg.valid
    THEN [ret |-> <<>>, err |-> TRUE]
    ELSE [ret |-> RemoveDuplicatedElem(TrimAndKeepDirs(reg.paths, ds)), err |-> FALSE]

\* The mutant of WriteWorkspacePaths: nothing is written and nil is returned.
WriteNothing(reg, workspacePaths, ok) == reg

\* func WriteWorkspacePaths(workspacePaths []string) (err error): the file after
\* the call; ok is whether filelock.WriteFile succeeds.
WriteWorkspacePaths(reg, workspacePaths, ok) ==
    IF ok
    THEN [exists |-> TRUE, valid |-> TRUE, paths |-> RemoveDuplicatedElem(workspacePaths)]
    ELSE reg

\* initWorkspaceDir, lines 259-269: the paths read from the registry.
LoadedPaths(reg, ds) == IF ~reg.exists THEN <<>> ELSE ReadWorkspacePaths(reg, ds).ret

\* initWorkspaceDir, lines 259-273: the workspace chosen before it is checked.
TargetDir(reg, ds, arg) ==
    IF arg # EmptyPath THEN arg
    ELSE IF 0 < Len(LoadedPaths(reg, ds))
         THEN LoadedPaths(reg, ds)[Len(LoadedPaths(reg, ds))]
         ELSE defaultWorkspaceDir

\* The mutant of the list that is persisted: the current workspace alone.
OnlyWorkspaceDir(workspacePaths, dir) == <<dir>>

\* workspacePaths = append(workspacePaths, WorkspaceDir)
AppendWorkspaceDir(workspacePaths, dir) == Append(workspacePaths, dir)

\* The mutant of os.MkdirAll: reports success and creates nothing.
MkdirNothing(ds, path) == ds

\* os.MkdirAll(path, 0755) when it succeeds: the directories afterwards.
MkdirAll(ds, path) == ds \cup {path}

\* The mutant of os.Exit inside initWorkspaceDir: the error is logged and the
\* run goes on.
ResolveGoOn(ds, reg, dir) ==
    /\ rpc' = "resolved"
    /\ rexit' = ""
    /\ dirs' = ds
    /\ regFile' = reg
    /\ WorkspaceDir' = dir

\* os.Exit(code) inside initWorkspaceDir, with what the run had done before.
ResolveExit(ds, reg, dir) ==
    /\ rpc' = "exited"
    /\ rexit' = ExitCodeInitWorkspaceErr
    /\ dirs' = ds
    /\ regFile' = reg
    /\ WorkspaceDir' = dir

\* func initWorkspaceDir(workspaceArg string). The four inputs are whether the
\* MkdirAll of the user's conf folder, the MkdirAll of the default workspace,
\* the write of the registry and the MkdirAll of temp/os succeed.
initWorkspaceDir(mkConfOk, mkDefaultOk, writeOk, mkTmpOk) ==
    /\ rpc = "init"
    /\ regBefore' = regFile
    /\ dirsBefore' = dirs
    /\ UNCHANGED workspaceArg
    /\ UNCHANGED <<lockVars, bootVars, sessionVars, kernelVars, saveVars>>
    /\ LET target == TargetDir(regFile, dirs, workspaceArg)
           useDefault == ~IsDir(dirs, target)
           mkdirFails == useDefault /\ ~IsDir(dirs, defaultWorkspaceDir) /\ ~mkDefaultOk
           ds == IF useDefault THEN MkdirAll(dirs, defaultWorkspaceDir) ELSE dirs
           dir == IF useDefault THEN defaultWorkspaceDir ELSE target
           workspacePaths == AppendWorkspaceDir(LoadedPaths(regFile, dirs), dir)
           written == WriteWorkspacePaths(regFile, workspacePaths, writeOk)
       IN IF ~regFile.exists /\ ~mkConfOk
          THEN ResolveExit(dirs, regFile, WorkspaceDir) /\ rfail' = "MkdirAll(userHomeConfDir)"
          ELSE IF mkdirFails
          THEN ResolveExit(dirs, regFile, target) /\ rfail' = "MkdirAll(defaultWorkspaceDir)"
          ELSE IF ~writeOk
          THEN ResolveExit(ds, written, dir) /\ rfail' = "WriteWorkspacePaths"
          ELSE IF ~mkTmpOk
          THEN ResolveExit(ds, written, dir) /\ rfail' = "MkdirAll(osTmpDir)"
          ELSE /\ rpc' = "resolved"
               /\ rexit' = ""
               /\ rfail' = ""
               /\ dirs' = ds
               /\ regFile' = written
               /\ WorkspaceDir' = dir

\* The kernel is started again, with or without a --workspace argument.
Restart(arg) ==
    /\ rpc # "init"
    /\ rpc' = "init"
    /\ rexit' = ""
    /\ workspaceArg' = arg
    /\ WorkspaceDir' = EmptyPath
    /\ regBefore' = NoRegistry
    /\ dirsBefore' = {}
    /\ rfail' = ""
    /\ UNCHANGED <<dirs, regFile>>
    /\ UNCHANGED <<lockVars, bootVars, sessionVars, kernelVars, saveVars>>

\* Between two runs the user removes or moves a directory.
DirVanishes(path) ==
    /\ rpc = "init"
    /\ path \in dirs
    /\ dirs' = dirs \ {path}
    /\ UNCHANGED <<regFile, workspaceArg, WorkspaceDir, rpc, rexit, regBefore, dirsBefore, rfail>>
    /\ UNCHANGED <<lockVars, bootVars, sessionVars, kernelVars, saveVars>>

InitResolve ==
    /\ dirs \in SUBSET Paths
    /\ regFile \in Registries
    /\ workspaceArg \in Paths \cup {EmptyPath}
    /\ WorkspaceDir = EmptyPath
    /\ rpc = "init"
    /\ rexit = ""
    /\ regBefore = NoRegistry
    /\ dirsBefore = {}
    /\ rfail = ""
    /\ IdleLock /\ IdleBoot /\ IdleSession /\ IdleKernel /\ IdleSave

NextResolve ==
    \/ \E mkConfOk, mkDefaultOk, writeOk, mkTmpOk \in BOOLEAN :
           initWorkspaceDir(mkConfOk, mkDefaultOk, writeOk, mkTmpOk)
    \/ \E arg \in Paths \cup {EmptyPath} : Restart(arg)
    \/ \E path \in Paths : DirVanishes(path)

SpecResolve == InitResolve /\ [][NextResolve]_vars

\* ---- SpecSave: WriteWorkspacePaths called with one sequence, several times,
\* and ReadWorkspacePaths called on what it left.
SaveArgs == UNION {[1..n -> Paths] : n \in 0..MaxSaveLen}

\* WriteWorkspacePaths(saveArg); ok is whether filelock.WriteFile succeeds.
Save(ok) ==
    /\ Len(saved) < MaxSaves
    /\ ~loadRet.called
    /\ regFile' = WriteWorkspacePaths(regFile, saveArg, ok)
    /\ saved' = IF ok THEN Append(saved, regFile'.paths) ELSE saved
    /\ UNCHANGED <<saveArg, loadRet>>
    /\ UNCHANGED <<dirs, workspaceArg, WorkspaceDir, rpc, rexit, regBefore, dirsBefore, rfail>>
    /\ UNCHANGED <<lockVars, bootVars, sessionVars, kernelVars>>

\* ReadWorkspacePaths() after a save.
Load ==
    /\ saved # <<>>
    /\ ~loadRet.called
    /\ loadRet' = [called |-> TRUE,
                   ret |-> ReadWorkspacePaths(regFile, dirs).ret,
                   err |-> ReadWorkspacePaths(regFile, dirs).err]
    /\ UNCHANGED <<saveArg, saved>>
    /\ UNCHANGED resolveVars
    /\ UNCHANGED <<lockVars, bootVars, sessionVars, kernelVars>>

InitSave ==
    /\ saveArg \in SaveArgs
    /\ saved = <<>>
    /\ loadRet = NotLoaded
    /\ dirs \in SUBSET Paths
    /\ regFile \in {NoRegistry, BadRegistry}
    /\ workspaceArg = EmptyPath /\ WorkspaceDir = EmptyPath
    /\ rpc = "idle" /\ rexit = "" /\ rfail = ""
    /\ regBefore = NoRegistry /\ dirsBefore = {}
    /\ IdleLock /\ IdleBoot /\ IdleSession /\ IdleKernel

NextSave ==
    \/ \E ok \in BOOLEAN : Save(ok)
    \/ Load

SpecSave == InitSave /\ [][NextSave]_vars

\* ============================================================== Boot
\* Several kernels are launched on one host with the same workspace: each runs
\* Boot (the gate on the access code, the layout part of initWorkspaceDir,
\* tryLockWorkspace, initPathDir) and then main up to SetBooted. Which workspace
\* initWorkspaceDir selects is SpecResolve's subject: here every kernel selects
\* the one workspace. tryLockWorkspace is TryLockOpen and TryLockFlock above.
Kernels == 1..NKernels

\* os.Exit(1)
ExitCodeGate == "1"

\* The values of SIYUAN_ACCESS_AUTH_CODE_BYPASS: not set (os.Getenv gives ""),
\* the opt-in, the opt-out and a value that is no boolean.
BypassEnvs == {"", "true", "false", "yes"}
\* The values of --accessAuthCode: not given, or a code.
AccessCodes == {"", "code"}

\* strconv.ParseBool
ParseBool(str) ==
    IF str \in {"1", "t", "T", "TRUE", "true", "True"} THEN [v |-> TRUE, err |-> FALSE]
    ELSE IF str \in {"0", "f", "F", "FALSE", "false", "False"} THEN [v |-> FALSE, err |-> FALSE]
    ELSE [v |-> FALSE, err |-> TRUE]

\* func initEnvVars(): the value it leaves in SiyuanAccessAuthCodeBypass.
initEnvVars(env) == IF ParseBool(env).err THEN TRUE ELSE ParseBool(env).v

\* The directories initPathDir creates, in its order.
PathDirs == <<"conf", "data", "temp", "data/assets", "data/templates", "data/widgets",
              "data/plugins", "data/emojis", "data/public">>
TreeDirs == {PathDirs[i] : i \in 1..Len(PathDirs)} \cup {"temp/os"}

\* os.Exit in a kernel: its open files are closed, which releases its lock.
KernelExit(p, code) ==
    /\ kpc' = [kpc EXCEPT ![p] = "exited"]
    /\ pc' = [pc EXCEPT ![p] = "exited"]
    /\ exitCode' = [exitCode EXCEPT ![p] = code]
    /\ WorkspaceLock' = [WorkspaceLock EXCEPT ![p].l = FALSE, ![p].fh = NoInode]

\* Boot, lines 79-126: initEnvVars, IncBootProgress(3, ...), the flags, and the
\* check of the access code in a container.
BootFlags(p, code) ==
    /\ kpc[p] = "Boot"
    /\ RunInContainer' = [RunInContainer EXCEPT ![p] = inContainer]
    /\ SiyuanAccessAuthCodeBypass' = [SiyuanAccessAuthCodeBypass EXCEPT ![p] = initEnvVars(bypassEnv)]
    /\ kernelProgress' = [kernelProgress EXCEPT ![p] = 3]
    /\ AccessAuthCode' = [AccessAuthCode EXCEPT ![p] = code]
    /\ LET interruptBoot == ~SiyuanAccessAuthCodeBypass'[p]
       IN IF RunInContainer'[p] /\ code = "" /\ interruptBoot
          THEN KernelExit(p, ExitCodeGate)
          ELSE /\ kpc' = [kpc EXCEPT ![p] = "initWorkspaceDir"]
               /\ UNCHANGED <<pc, exitCode, WorkspaceLock>>
    /\ UNCHANGED <<wsIsDir, lockFile, probeLock, ppc, probeRet>>
    /\ UNCHANGED <<inContainer, bypassEnv, treeDirs, tmpOs, tmpRepo, removed, created>>
    /\ UNCHANGED <<bootVars, resolveVars, sessionVars, saveVars>>

\* initWorkspaceDir, lines 290-311, and Boot up to its call of tryLockWorkspace:
\* temp/os is removed with all it holds and made again, temp/repo is removed.
\* mkTmpOk is whether the MkdirAll of temp/os succeeds.
BootInitWorkspaceDir(p, mkTmpOk) ==
    /\ kpc[p] = "initWorkspaceDir"
    /\ tmpOs' = {}
    /\ IF mkTmpOk
       THEN /\ treeDirs' = treeDirs \cup {"temp", "temp/os"}
            /\ tmpRepo' = FALSE
            /\ removed' = [removed EXCEPT ![p] =
                   @ \cup {<<"temp/os", k>> : k \in tmpOs}
                     \cup (IF tmpRepo THEN {<<"temp/repo", 0>>} ELSE {})]
            /\ created' = [created EXCEPT ![p] = @ \cup ({"temp"} \ treeDirs)]
            /\ kpc' = [kpc EXCEPT ![p] = "tryLockWorkspace"]
            /\ pc' = [pc EXCEPT ![p] = "start"]
            /\ UNCHANGED <<exitCode, WorkspaceLock>>
       ELSE /\ treeDirs' = treeDirs \ {"temp/os"}
            /\ removed' = [removed EXCEPT ![p] = @ \cup {<<"temp/os", k>> : k \in tmpOs}]
            /\ KernelExit(p, ExitCodeInitWorkspaceErr)
            /\ UNCHANGED <<tmpRepo, created>>
    /\ UNCHANGED <<wsIsDir, lockFile, probeLock, ppc, probeRet>>
    /\ UNCHANGED <<inContainer, bypassEnv, RunInContainer, SiyuanAccessAuthCodeBypass,
                   AccessAuthCode, kernelProgress>>
    /\ UNCHANGED <<bootVars, resolveVars, sessionVars, saveVars>>

\* func initPathDir(), after tryLockWorkspace has returned. failAt is the
\* MkdirAll that fails (of a directory that does not exist), 0 when none does.
initPathDir(p, failAt) ==
    /\ kpc[p] = "tryLockWorkspace"
    /\ pc[p] = "serving"
    /\ failAt # 0 => PathDirs[failAt] \notin treeDirs
    /\ LET n == IF failAt = 0 THEN Len(PathDirs) ELSE failAt - 1
           made == {PathDirs[i] : i \in 1..n}
       IN /\ treeDirs' = treeDirs \cup made
          /\ created' = [created EXCEPT ![p] = @ \cup (made \ treeDirs)]
    /\ IF failAt = 0
       THEN /\ kpc' = [kpc EXCEPT ![p] = "main"]
            /\ UNCHANGED <<pc, exitCode, WorkspaceLock>>
       ELSE KernelExit(p, ExitCodeInitWorkspaceErr)
    /\ UNCHANGED <<wsIsDir, lockFile, probeLock, ppc, probeRet>>
    /\ UNCHANGED <<inContainer, bypassEnv, RunInContainer, SiyuanAccessAuthCodeBypass,
                   AccessAuthCode, kernelProgress, tmpOs, tmpRepo, removed>>
    /\ UNCHANGED <<bootVars, resolveVars, sessionVars, saveVars>>

\* main, after Boot has returned: util.SetBooted()
MainSetBooted(p) ==
    /\ kpc[p] = "main"
    /\ kpc' = [kpc EXCEPT ![p] = "booted"]
    /\ kernelProgress' = [kernelProgress EXCEPT ![p] = 100]
    /\ UNCHANGED lockVars
    /\ UNCHANGED <<inContainer, bypassEnv, RunInContainer, SiyuanAccessAuthCodeBypass,
                   AccessAuthCode, treeDirs, tmpOs, tmpRepo, removed, created>>
    /\ UNCHANGED <<bootVars, resolveVars, sessionVars, saveVars>>

\* A kernel that initPathDir has let through writes a file under TMPDIR (temp/os).
WriteTempFile(p) ==
    /\ kpc[p] \in {"main", "booted"}
    /\ "temp/os" \in treeDirs
    /\ tmpOs' = tmpOs \cup {p}
    /\ UNCHANGED lockVars
    /\ UNCHANGED <<kpc, inContainer, bypassEnv, RunInContainer, SiyuanAccessAuthCodeBypass,
                   AccessAuthCode, kernelProgress, treeDirs, tmpRepo, removed, created>>
    /\ UNCHANGED <<bootVars, resolveVars, sessionVars, saveVars>>

\* A kernel that has booted stages data in temp/repo.
StageRepo(p) ==
    /\ kpc[p] = "booted"
    /\ "temp" \in treeDirs
    /\ tmpRepo' = TRUE
    /\ UNCHANGED lockVars
    /\ UNCHANGED <<kpc, inContainer, bypassEnv, RunInContainer, SiyuanAccessAuthCodeBypass,
                   AccessAuthCode, kernelProgress, treeDirs, tmpOs, removed, created>>
    /\ UNCHANGED <<bootVars, resolveVars, sessionVars, saveVars>>

\* The workspace is an existing directory that no kernel serves: new, or with the
\* tree and the marker file an earlier kernel left.
InitKernel ==
    /\ wsIsDir = TRUE
    /\ lockFile \in {NoInode, 1}
    /\ treeDirs = (IF lockFile = NoInode THEN {} ELSE TreeDirs)
    /\ WorkspaceLock = [p \in Kernels |-> NilFlock]
    /\ pc = [p \in Kernels |-> "boot"]
    /\ exitCode = [p \in Kernels |-> ""]
    /\ probeLock = <<>> /\ ppc = <<>> /\ probeRet = <<>>
    /\ kpc = [p \in Kernels |-> "Boot"]
    /\ inContainer \in BOOLEAN
    /\ bypassEnv \in BypassEnvs
    /\ RunInContainer = [p \in Kernels |-> FALSE]
    /\ SiyuanAccessAuthCodeBypass = [p \in Kernels |-> TRUE]
    /\ AccessAuthCode = [p \in Kernels |-> ""]
    /\ kernelProgress = [p \in Kernels |-> 0]
    /\ tmpOs = {} /\ tmpRepo = FALSE
    /\ removed = [p \in Kernels |-> {}]
    /\ created = [p \in Kernels |-> {}]
    /\ IdleBoot /\ IdleResolve /\ IdleSession /\ IdleSave

NextKernel ==
    \/ \E p \in Kernels, code \in AccessCodes : BootFlags(p, code)
    \/ \E p \in Kernels, mkTmpOk \in BOOLEAN : BootInitWorkspaceDir(p, mkTmpOk)
    \/ \E p \in Kernels : TryLockOpen(p)
    \/ \E p \in Kernels : TryLockFlock(p)
    \/ \E p \in Kernels, failAt \in 0..Len(PathDirs) : initPathDir(p, failAt)
    \/ \E p \in Kernels : MainSetBooted(p)
    \/ \E p \in Kernels : WriteTempFile(p)
    \/ \E p \in Kernels : StageRepo(p)

SpecKernel == InitKernel /\ [][NextKernel]_vars

\* ============================================================== sessions
Sessions == 1..NSessions

\* The workspaces the kernels that a session's requests reach are serving.
SessionDirs == {<<"A">>, <<"B">>, defaultWorkspaceDir}

\* The values a caller gives to the fields of a WorkspaceSession: those of a
\* new one, and an access code with a captcha.
EntryValues == {[AccessAuthCode |-> "", Captcha |-> ""],
                [AccessAuthCode |-> "code", Captcha |-> "captcha"]}

\* &WorkspaceSession{}
NewWorkspaceSession == [AccessAuthCode |-> "", Captcha |-> ""]

\* SessionData{}: Workspaces is nil.
NilWorkspaces == [made |-> FALSE, m |-> <<>>]
\* map[string]*WorkspaceSession{}
EmptyWorkspaces == [made |-> TRUE, m |-> <<>>]

NoAddr == 0
\* One address for every entry there can be.
Addrs == 1..(Cardinality(DOMAIN sessions) * Cardinality(SessionDirs))
\* The address of a new value: the first that no entry points to.
NewAddr == CHOOSE a \in Addrs : a \notin DOMAIN heap /\ \A b \in 1..(a - 1) : b \in DOMAIN heap

\* The entries of the sessions, and the value an entry points to.
EntryKeys(ss) == {k \in (DOMAIN ss) \X SessionDirs : k[2] \in DOMAIN ss[k[1]].m}
EntryAddr(ss, k) == ss[k[1]].m[k[2]]
EntryVal(ss, hp, k) == hp[EntryAddr(ss, k)]

\* The heap without the values no entry points to any more.
Collect(ss, hp) == [a \in {EntryAddr(ss, k) : k \in EntryKeys(ss)} |-> hp[a]]

\* The mutant of NeedCaptcha: the comparison includes the threshold.
NeedCaptchaFrom3 == 3 <= WrongAuthCount

\* func NeedCaptcha() bool
NeedCaptcha == 3 < WrongAuthCount

\* The mutant of GetWorkspaceSession: the entry the session holds is not looked
\* up, a new one is stored every time.
GetWorkspaceSessionAlwaysNew(s) ==
    LET Workspaces == IF ~sessions[s].made THEN EmptyWorkspaces ELSE sessions[s]
        others == [w \in DOMAIN Workspaces.m \ {WorkspaceDir} |-> Workspaces.m[w]]
        kept == Collect([sessions EXCEPT ![s] = [Workspaces EXCEPT !.m = others]], heap)
        ret == CHOOSE a \in Addrs : a \notin DOMAIN kept /\ \A b \in 1..(a - 1) : b \in DOMAIN kept
    IN /\ sessions' = [sessions EXCEPT ![s] =
              [Workspaces EXCEPT !.m = [w \in DOMAIN Workspaces.m \cup {WorkspaceDir} |->
                  IF w = WorkspaceDir THEN ret ELSE Workspaces.m[w]]]]
       /\ heap' = [a \in DOMAIN kept \cup {ret} |->
                       IF a = ret THEN NewWorkspaceSession ELSE kept[a]]
       /\ sop' = [op |-> "GetWorkspaceSession", s |-> s, dir |-> WorkspaceDir, ret |-> ret]
       /\ UNCHANGED WrongAuthCount
       /\ UNCHANGED <<lockVars, bootVars, resolveVars, kernelVars, saveVars>>

\* func GetWorkspaceSession(session *SessionData) (ret *WorkspaceSession)
GetWorkspaceSession(s) ==
    LET Workspaces == IF ~sessions[s].made THEN EmptyWorkspaces ELSE sessions[s]
        found == WorkspaceDir \in DOMAIN Workspaces.m
        ret == IF found THEN Workspaces.m[WorkspaceDir] ELSE NewAddr
    IN /\ sessions' = [sessions EXCEPT ![s] =
              IF found THEN Workspaces
              ELSE [Workspaces EXCEPT !.m = [w \in DOMAIN Workspaces.m \cup {WorkspaceDir} |->
                        IF w = WorkspaceDir THEN ret ELSE Workspaces.m[w]]]]
       /\ heap' = IF found THEN heap
                  ELSE [a \in DOMAIN heap \cup {ret} |->
                           IF a = ret THEN NewWorkspaceSession ELSE heap[a]]
       /\ sop' = [op |-> "GetWorkspaceSession", s |-> s, dir |-> WorkspaceDir, ret |-> ret]
       /\ UNCHANGED WrongAuthCount
       /\ UNCHANGED <<lockVars, bootVars, resolveVars, kernelVars, saveVars>>

\* The mutant of RemoveWorkspaceSession: the whole map of the session is dropped.
RemoveAllWorkspaceSessions(s) ==
    /\ sessions' = [sessions EXCEPT ![s] = NilWorkspaces]
    /\ heap' = Collect(sessions', heap)
    /\ sop' = [op |-> "RemoveWorkspaceSession", s |-> s, dir |-> WorkspaceDir,
               ret |-> IF WorkspaceDir \in DOMAIN sessions[s].m
                       THEN sessions[s].m[WorkspaceDir] ELSE NoAddr]
    /\ UNCHANGED WrongAuthCount
    /\ UNCHANGED <<lockVars, bootVars, resolveVars, kernelVars, saveVars>>

\* func RemoveWorkspaceSession(session *SessionData): delete(session.Workspaces,
\* WorkspaceDir), which does nothing on a nil map or a missing key.
RemoveWorkspaceSession(s) ==
    /\ sessions' = [sessions EXCEPT ![s].m =
           [w \in DOMAIN sessions[s].m \ {WorkspaceDir} |-> sessions[s].m[w]]]
    /\ heap' = Collect(sessions', heap)
    /\ sop' = [op |-> "RemoveWorkspaceSession", s |-> s, dir |-> WorkspaceDir,
               ret |-> IF WorkspaceDir \in DOMAIN sessions[s].m
                       THEN sessions[s].m[WorkspaceDir] ELSE NoAddr]
    /\ UNCHANGED WrongAuthCount
    /\ UNCHANGED <<lockVars, bootVars, resolveVars, kernelVars, saveVars>>

\* The caller of GetWorkspaceSession sets the fields of the entry it was given.
SetEntry(value) ==
    /\ sop.op = "GetWorkspaceSession"
    /\ sop.ret \in DOMAIN heap
    /\ heap' = [heap EXCEPT ![sop.ret] = value]
    /\ sop' = [sop EXCEPT !.op = "SetEntry"]
    /\ UNCHANGED <<sessions, WrongAuthCount>>
    /\ UNCHANGED <<lockVars, bootVars, resolveVars, kernelVars, saveVars>>

\* The requests of the sessions reach a kernel that serves another workspace.
SwitchWorkspace(dir) ==
    /\ dir # WorkspaceDir
    /\ WorkspaceDir' = dir
    /\ sop' = [op |-> "SwitchWorkspace", s |-> 0, dir |-> dir, ret |-> NoAddr]
    /\ UNCHANGED <<sessions, heap, WrongAuthCount>>
    /\ UNCHANGED <<dirs, regFile, workspaceArg, rpc, rexit, regBefore, dirsBefore, rfail>>
    /\ UNCHANGED <<lockVars, bootVars, kernelVars, saveVars>>

\* An authorization fails: WrongAuthCount++
WrongAuth ==
    /\ WrongAuthCount < MaxWrongAuthCount
    /\ WrongAuthCount' = WrongAuthCount + 1
    /\ UNCHANGED <<sessions, heap, sop>>
    /\ UNCHANGED <<lockVars, bootVars, resolveVars, kernelVars, saveVars>>

\* An authorization succeeds: WrongAuthCount = 0
RightAuth ==
    /\ WrongAuthCount' = 0
    /\ UNCHANGED <<sessions, heap, sop>>
    /\ UNCHANGED <<lockVars, bootVars, resolveVars, kernelVars, saveVars>>

InitSession ==
    /\ sessions = [s \in Sessions |-> NilWorkspaces]
    /\ heap = <<>>
    /\ WrongAuthCount = 0
    /\ sop = [op |-> "", s |-> 0, dir |-> <<>>, ret |-> NoAddr]
    /\ dirs = SessionDirs /\ regFile = NoRegistry
    /\ workspaceArg = EmptyPath /\ WorkspaceDir \in SessionDirs
    /\ rpc = "resolved" /\ rexit = "" /\ rfail = ""
    /\ regBefore = NoRegistry /\ dirsBefore = {}
    /\ IdleLock /\ IdleBoot /\ IdleKernel /\ IdleSave

NextSession ==
    \/ \E s \in Sessions : GetWorkspaceSession(s)
    \/ \E s \in Sessions : RemoveWorkspaceSession(s)
    \/ \E value \in EntryValues : SetEntry(value)
    \/ \E dir \in SessionDirs : SwitchWorkspace(dir)

SpecSession == InitSession /\ [][NextSession]_vars

\* SpecAuth: the authorizations that fail and succeed, whatever the sessions.
NextAuth == WrongAuth \/ RightAuth

SpecAuth == InitSession /\ [][NextAuth]_vars

\* ============================================================== claims
\* The processes that hold the workspace lock: TryLock returned ok and
\* UnlockWorkspace has not released it.
Holders == {p \in Procs : WorkspaceLock[p].l}

\* C1: at no moment do two processes both hold the lock of the workspace.
C1_SingleWriter == Cardinality(Holders) <= 1

\* C2: of the TryLock calls racing for a free workspace exactly one succeeds and
\* the others exit with ExitCodeWorkspaceLocked; after the holder's
\* UnlockWorkspace the next TryLock succeeds. Stated per call: a TryLock that
\* completes succeeds exactly when no process holds the lock at that moment.
C2_ExactlyOne ==
    [][\A p \in Procs :
          (pc[p] = "opened" /\ pc'[p] # "opened") =>
              /\ (pc'[p] = "serving") <=> (Holders = {})
              /\ (pc'[p] # "serving") =>
                     (pc'[p] = "exited" /\ exitCode'[p] = ExitCodeWorkspaceLocked)
              /\ Cardinality(Holders') <= 1]_vars

\* One process has released the workspace, another has acquired it since, and a
\* third lost the race against a holder.
C2_Witness ==
    \E p, q, r \in Procs :
        /\ pc[p] = "stopped"
        /\ pc[q] = "serving"
        /\ pc[r] = "exited" /\ exitCode[r] = ExitCodeWorkspaceLocked

\* The sum and the smallest of the deltas of SpecAdvance's calls.
RECURSIVE SumOver(_)
SumOver(S) == IF S = {} THEN 0 ELSE LET t == CHOOSE x \in S : TRUE IN calls[t] + SumOver(S \ {t})
SumCalls == SumOver(DOMAIN calls)
MinCall == CHOOSE d \in {calls[t] : t \in DOMAIN calls} : \A t \in DOMAIN calls : d <= calls[t]
AllReturned == \A t \in Thr : tpc[t] = "idle"

\* C3 as claimed: concurrent IncBootProgress calls with positive deltas summing to
\* at least 100, started at progress 0, end with progress equal to the sum of all
\* the deltas and IsBooted true.
C3_FinalIsSum ==
    (AllReturned /\ SumCalls >= 100) => (bootProgress = SumCalls /\ IsBooted)

\* C3 as amended: they end with IsBooted true and progress at least 100 and at
\* most the sum; progress equals the sum when the sum less the smallest delta is
\* below 100, so that no call can find the threshold reached at its guard.
C3_FinalReady ==
    (AllReturned /\ SumCalls >= 100) =>
        /\ IsBooted
        /\ bootProgress <= SumCalls
        /\ (SumCalls - MinCall < 100) => bootProgress = SumCalls

\* All calls have returned, the deltas total more than 100 and all were added.
C3_Witness ==
    /\ AllReturned /\ SumCalls > 100 /\ SumCalls - MinCall < 100
    /\ bootProgress = SumCalls

\* C4 as claimed: the progress of a later state is never smaller than that of an
\* earlier state.
C4_Monotonic == [][bootProgress' >= bootProgress]_vars

\* C4 as amended: progress decreases only in the step of SetBooted that stores
\* 100, which lowers it from an overshoot above 100 to exactly 100.
C4_MonotonicButSetBooted ==
    [][bootProgress' < bootProgress =>
          /\ bootProgress' = 100
          /\ \E t \in Thr : tpc[t] = "booted_store" /\ tpc'[t] = "idle"]_vars

\* IncBootProgress calls have overshot 100 and a SetBooted is about to store 100.
C4_Witness == bootProgress > 100 /\ \E t \in Thr : tpc[t] = "booted_store"

\* C5: once IsBooted is true it is true in every later state.
C5_ReadyIrreversible == [][IsBooted => IsBooted']_vars

\* IsBooted is true while an IncBootProgress that passed its guard earlier has
\* still to add its delta, and a SetBooted has still to store 100.
C5_Witness ==
    /\ IsBooted
    /\ \E t \in Thr : tpc[t] = "inc_add"
    /\ \E t \in Thr : tpc[t] = "booted_store"

\* What the registry held when the run started, and what it holds now.
Range(q) == {q[i] : i \in 1..Len(q)}
ReadableBefore == regBefore.exists /\ regBefore.valid
\* The entries, trimmed, that were existing directories when the run started,
\* and for each the position at which it first stands in the registry.
Survivors == {d \in {TrimRight(e) : e \in Range(regBefore.paths)} : d \in dirsBefore}
FirstAt(d) ==
    CHOOSE i \in 1..Len(regBefore.paths) :
        /\ TrimRight(regBefore.paths[i]) = d
        /\ \A j \in 1..(i - 1) : TrimRight(regBefore.paths[j]) # d

\* C6: with an override that is an existing directory (a normalized path, with no
\* trailing blank), initWorkspaceDir selects
\* the override and leaves it as the last entry of the persisted registry, so
\* that the next run without an override selects it.
C6_OverrideIsMostRecent ==
    (/\ rpc = "resolved" /\ workspaceArg # EmptyPath
     /\ TrimRight(workspaceArg) = workspaceArg /\ workspaceArg \in dirsBefore) =>
        /\ WorkspaceDir = workspaceArg
        /\ regFile.paths[Len(regFile.paths)] = workspaceArg
        /\ TargetDir(regFile, dirs, EmptyPath) = workspaceArg

C8_EntriesKept ==
    (rpc = "resolved" /\ ReadableBefore) =>
        \A e \in Range(regBefore.paths) : e \in Range(regFile.paths)

\* C8 as amended: every entry that, trimmed, is an existing directory when the run
\* starts is in the persisted registry afterwards (in its trimmed form); an entry
\* whose directory has vanished is removed from it, unless it is the workspace
\* the run selects; a registry that cannot be read or parsed is replaced by one
\* that holds the selected workspace alone.
C8_ExistingEntriesKept ==
    /\ (rpc = "resolved" /\ ReadableBefore) =>
           \A e \in Range(regBefore.paths) :
               /\ TrimRight(e) \in dirsBefore => TrimRight(e) \in Range(regFile.paths)
               /\ (TrimRight(e) \notin dirsBefore /\ TrimRight(e) # WorkspaceDir) =>
                      TrimRight(e) \notin Range(regFile.paths)
    /\ (rpc = "resolved" /\ regBefore.exists /\ ~regBefore.valid) =>
           regFile.paths = <<WorkspaceDir>>

\* The registry held an entry that was still a directory and is not the selected
\* workspace, and one whose directory had vanished.
C8_Witness ==
    /\ rpc = "resolved" /\ ReadableBefore
    /\ \E e \in Range(regBefore.paths) : e \in dirsBefore /\ e # WorkspaceDir
    /\ \E e \in Range(regBefore.paths) : TrimRight(e) \notin dirsBefore

\* C9: when initWorkspaceDir completes without exiting, the active workspace is
\* an existing directory; a target that is no existing directory is replaced by
\* the default path, which exists afterwards.
C9_ActiveIsDir ==
    rpc = "resolved" =>
        /\ WorkspaceDir \in dirs
        /\ TargetDir(regBefore, dirsBefore, workspaceArg) \notin dirsBefore =>
               WorkspaceDir = defaultWorkspaceDir

\* The target of the run was no directory and neither was the default path.
C9_Witness ==
    /\ rpc = "resolved"
    /\ TargetDir(regBefore, dirsBefore, workspaceArg) \notin dirsBefore
    /\ defaultWorkspaceDir \notin dirsBefore
    /\ workspaceArg # EmptyPath

\* C10: with no override and a registry that is absent or empty, initWorkspaceDir
\* selects the default directory, the directory exists afterwards and the
\* persisted registry holds the default as its one entry.
C10_FirstRunDefault ==
    (/\ rpc = "resolved" /\ workspaceArg = EmptyPath
     /\ (~regBefore.exists \/ (regBefore.valid /\ regBefore.paths = <<>>))) =>
        /\ WorkspaceDir = defaultWorkspaceDir
        /\ defaultWorkspaceDir \in dirs
        /\ regFile = [exists |-> TRUE, valid |-> TRUE, paths |-> <<defaultWorkspaceDir>>]

\* A first run (no registry file, no default directory yet) has completed.
C10_Witness ==
    /\ rpc = "resolved" /\ workspaceArg = EmptyPath
    /\ ~regBefore.exists
    /\ defaultWorkspaceDir \notin dirsBefore

\* C12: whenever IsWorkspaceLocked has returned, on whichever path, the caller
\* holds no lock and has no file open; and no step of IsWorkspaceLocked changes
\* which processes hold the workspace lock or the handle they hold it with.
C12_ProbeLeavesNoLock ==
    [][/\ \A q \in ProbeProcs :
              ppc'[q] = "idle" => (~probeLock'[q].l /\ probeLock'[q].fh = NoInode)
       /\ (ppc' # ppc \/ probeRet' # probeRet \/ probeLock' # probeLock) =>
              (Holders' = Holders /\ WorkspaceLock' = WorkspaceLock)]_vars

\* IsWorkspaceLocked has returned true while a kernel holds the workspace lock.
C12_Witness ==
    /\ Holders # {}
    /\ \E q \in ProbeProcs : ppc[q] = "idle" /\ probeRet[q]

\* C14 as claimed: a run of initWorkspaceDir in which the write of the registry
\* fails goes on: it ends resolved, with the workspace it selected.
C14_WriteFailureGoesOn == rfail = "WriteWorkspacePaths" => rpc = "resolved"

\* C14 as amended: a run of initWorkspaceDir in which the write of the registry
\* fails ends there, with os.Exit(ExitCodeInitWorkspaceErr); the workspace was
\* selected (and the default directory created when it was needed) but the
\* registry file is as the run found it; a run ends resolved only with the
\* registry written.
C14_WriteFailureExits ==
    /\ rfail = "WriteWorkspacePaths" =>
           /\ rpc = "exited" /\ rexit = ExitCodeInitWorkspaceErr
           /\ regFile = regBefore
           /\ WorkspaceDir \in dirs
    /\ rpc = "resolved" =>
           /\ regFile.exists /\ regFile.valid
           /\ WorkspaceDir \in Range(regFile.paths)

\* The write failed in a run that had created the default workspace, with a
\* registry that did not hold it.
C14_Witness ==
    /\ rfail = "WriteWorkspacePaths" /\ rpc = "exited"
    /\ WorkspaceDir = defaultWorkspaceDir
    /\ defaultWorkspaceDir \notin dirsBefore
    /\ defaultWorkspaceDir \notin Range(regFile.paths)

\* C11: GetWorkspaceSession under the active workspace returns the entry the
\* session holds for that workspace, which is no entry of another workspace or
\* another session; setting the fields of one entry changes no other entry;
\* RemoveWorkspaceSession deletes the entry of the active workspace and leaves
\* every other entry, with its fields, as it was.
C11_Partitioned ==
    [][LET before == EntryKeys(sessions)
           after == EntryKeys(sessions')
           me == <<sop'.s, WorkspaceDir>>
           Kept(K) == \A k \in K :
                          /\ k \in after
                          /\ EntryAddr(sessions', k) = EntryAddr(sessions, k)
                          /\ EntryVal(sessions', heap', k) = EntryVal(sessions, heap, k)
       IN /\ \A k, j \in after : EntryAddr(sessions', k) = EntryAddr(sessions', j) => k = j
          /\ (sop'.op = "GetWorkspaceSession" /\ sop'.dir = WorkspaceDir) =>
                 /\ after = before \cup {me}
                 /\ EntryAddr(sessions', me) = sop'.ret
                 /\ Kept(before)
          /\ (sop'.op = "RemoveWorkspaceSession" /\ sop'.dir = WorkspaceDir) =>
                 /\ after = before \ {me}
                 /\ Kept(before \ {me})
          /\ (sop'.op = "SetEntry" /\ sop.op = "GetWorkspaceSession") =>
                 /\ after = before
                 /\ Kept({k \in before : EntryAddr(sessions, k) # sop.ret})]_vars

\* A session has an entry with an access code under one workspace and one with
\* none under another, and its entry of a third workspace has just been removed.
C11_Witness ==
    /\ sop.op = "RemoveWorkspaceSession" /\ sop.ret # NoAddr
    /\ \E s \in DOMAIN sessions : \E w1, w2 \in DOMAIN sessions[s].m :
           /\ s = sop.s /\ w1 # w2
           /\ WorkspaceDir \notin DOMAIN sessions[s].m
           /\ heap[sessions[s].m[w1]].AccessAuthCode = "code"
           /\ heap[sessions[s].m[w2]].AccessAuthCode = ""

\* C18: NeedCaptcha is false at every count from 0 to 3 and true at every count
\* of 4 or more.
C18_NeedCaptchaAbove3 ==
    /\ WrongAuthCount \in 0..3 => ~NeedCaptcha
    /\ WrongAuthCount >= 4 => NeedCaptcha

\* The fourth authorization in a row has failed.
C18_Witness == WrongAuthCount = 4 /\ NeedCaptcha

\* The position at which a path first stands in a sequence.
FirstIn(q, e) == CHOOSE i \in 1..Len(q) : q[i] = e /\ \A j \in 1..(i - 1) : q[j] # e
\* content holds each path of arg once, in the order of first occurrence in arg.
FirstSeenOrder(content, arg) ==
    /\ Range(content) = Range(arg)
    /\ \A i, j \in 1..Len(content) :
           i < j => (content[i] # content[j] /\ FirstIn(arg, content[i]) < FirstIn(arg, content[j]))
EndsInBlank(e) == Len(e) > 0 /\ e[Len(e)] \in {" ", "\t", "\n"}

\* C16 as claimed: every successful WriteWorkspacePaths of the same sequence
\* leaves the same content, which holds each path once in the order of first
\* occurrence; ReadWorkspacePaths of that content, with all its paths existing
\* directories, returns the same sequence.
C16_SaveLoadRoundTrip ==
    /\ \A i \in 1..Len(saved) : saved[i] = saved[1] /\ FirstSeenOrder(saved[i], saveArg)
    /\ (loadRet.called /\ Range(saved[1]) \subseteq dirs) =>
           (~loadRet.err /\ loadRet.ret = saved[1])

\* C16 as amended: the same for the saves; ReadWorkspacePaths returns the same
\* sequence when, besides, no path of the content ends in a blank, a tab or a
\* newline; in general it returns, without duplicates, the paths of the content
\* with such endings cut off that are existing directories.
C16_SaveLoadTrimmed ==
    /\ \A i \in 1..Len(saved) : saved[i] = saved[1] /\ FirstSeenOrder(saved[i], saveArg)
    /\ (/\ loadRet.called /\ Range(saved[1]) \subseteq dirs
        /\ \A e \in Range(saved[1]) : ~EndsInBlank(e)) =>
           (~loadRet.err /\ loadRet.ret = saved[1])
    /\ loadRet.called =>
           /\ ~loadRet.err
           /\ Range(loadRet.ret) = {TrimRight(e) : e \in Range(saved[1])} \cap dirs
           /\ \A i, j \in 1..Len(loadRet.ret) : loadRet.ret[i] = loadRet.ret[j] => i = j

\* A sequence with a path repeated after another path was saved twice and the
\* content, all existing directories with no blank at the end, was loaded.
C16_Witness ==
    /\ Len(saved) = 2 /\ loadRet.called
    /\ Len(saveArg) = 3 /\ saveArg[1] = saveArg[3] /\ saveArg[1] # saveArg[2]
    /\ Range(saved[1]) \subseteq dirs
    /\ \A e \in Range(saved[1]) : ~EndsInBlank(e)

\* C17: SetBooted, run with no other call in flight, leaves progress at exactly
\* 100 and details at "v3.1.11 Finishing boot...", whatever they were before;
\* a SetBooted that finds them so leaves them so at each of its steps.
C17_SetBootedForces ==
    [][\A t \in Thr :
          LET finishing == <<"v", "3.1.11", " ", "Finishing boot...">>
              steps == \/ tpc[t] = "idle" /\ tpc'[t] = "booted_store"
                       \/ tpc[t] = "booted_store" /\ tpc'[t] = "idle"
          IN /\ (tpc[t] = "booted_store" /\ tpc'[t] = "idle") =>
                    (bootProgress' = 100 /\ bootDetails' = finishing)
             /\ (steps /\ bootProgress = 100 /\ bootDetails = finishing) =>
                    (bootProgress' = 100 /\ bootDetails' = finishing)]_vars

\* SetBooted has set the details and is about to store 100 over a progress that
\* IncBootProgress had taken above 100.
C17_Witness ==
    /\ bootProgress > 100
    /\ bootDetails = <<"v", "3.1.11", " ", "Finishing boot...">>
    /\ \E t \in Thr : tpc[t] = "booted_store"

\* C20: once progress is 100 or more, no step of an IncBootProgress or a
\* SetBootDetails call changes progress or details, whenever the call evaluated
\* its guard.
C20_BootedTerminal ==
    [][(/\ IsBooted
        /\ \E t \in Thr : /\ tpc[t] \in {"inc_guard", "inc_add", "inc_details", "set_details"}
                          /\ tpc'[t] # tpc[t]) =>
           (bootProgress' = bootProgress /\ bootDetails' = bootDetails)]_vars

\* C13: a kernel that runs in a container with no access code, and without the
\* bypass variable set to a value that means true, does not get past the check
\* of Boot: it exits.
C13_GateInterrupts ==
    \A p \in DOMAIN kpc :
        (/\ kpc[p] # "Boot"
         /\ RunInContainer[p] /\ AccessAuthCode[p] = ""
         /\ bypassEnv \notin {"1", "t", "T", "TRUE", "true", "True"}) =>
            (kpc[p] = "exited" /\ exitCode[p] = ExitCodeGate)

\* C15: a kernel whose TryLock runs while another kernel holds the workspace lock
\* exits at that one attempt with ExitCodeWorkspaceLocked, which is not
\* ExitCodeInitWorkspaceErr, holding nothing; and a kernel that has exited so
\* stays exited, having made neither conf nor data, with its progress below 100.
C15_ContentionExits ==
    [][\A p \in Procs :
          /\ (/\ pc[p] = "opened" /\ pc'[p] # "opened"
              /\ \E q \in Procs \ {p} : WorkspaceLock[q].l) =>
                 /\ pc'[p] = "exited"
                 /\ exitCode'[p] = ExitCodeWorkspaceLocked
                 /\ exitCode'[p] # ExitCodeInitWorkspaceErr
                 /\ ~WorkspaceLock'[p].l
          /\ exitCode'[p] = ExitCodeWorkspaceLocked =>
                 /\ kpc'[p] = "tryLockWorkspace"
                 /\ kernelProgress'[p] < 100
                 /\ created'[p] \cap {"conf", "data"} = {}
          /\ exitCode[p] = ExitCodeWorkspaceLocked =>
                 /\ pc'[p] = "exited" /\ exitCode'[p] = exitCode[p]
                 /\ created'[p] = created[p]]_vars

\* A kernel has exited with ExitCodeWorkspaceLocked on a new workspace that
\* another kernel holds and has booted on.
C15_Witness ==
    \E p, q \in Procs :
        /\ pc[p] = "exited" /\ exitCode[p] = ExitCodeWorkspaceLocked
        /\ WorkspaceLock[q].l /\ kpc[q] = "booted"
        /\ "conf" \in created[q]

\* C19: a kernel removes something from the workspace only while it holds the
\* workspace lock, so a kernel that exits with ExitCodeWorkspaceLocked has removed
\* nothing.
C19_RemovesOnlyWhenLocked ==
    [][\A p \in Procs :
          /\ removed'[p] # removed[p] => WorkspaceLock[p].l
          /\ exitCode'[p] = ExitCodeWorkspaceLocked => removed'[p] = {}]_vars

\* C21: the pair GetBootProgressDetails returns is a pair the boot state has
\* held at one instant, and it is never a progress below 100 with the message
\* SetBooted writes.
C21_SnapshotConsistent ==
    \A t \in DOMAIN gret :
        gret[t].returned =>
            /\ <<gret[t].progress, gret[t].details>> \in held
            /\ ~(gret[t].progress < 100 /\ gret[t].details = <<"v", Ver, " ", "Finishing boot...">>)

\* C22: a tryLockWorkspace on an existing workspace directory exits only when
\* another service process holds the lock; the calls of IsWorkspaceLocked that
\* other processes are running never make it exit.
C22_ProbeNeverFailsBoot ==
    [][\A p \in Procs :
          (pc[p] \in {"start", "opened"} /\ pc'[p] = "exited" /\ wsIsDir) =>
              \E r \in Procs \ {p} : WorkspaceLock[r].l]_vars

\* C23: a GetWorkspaceSession that follows a GetWorkspaceSession of the same
\* session under the same workspace, with or without the fields set in between,
\* returns the same entry with its fields as they were and changes nothing, and
\* the session has one entry for the workspace; one that follows a
\* RemoveWorkspaceSession returns an entry no session had, with empty fields;
\* RemoveWorkspaceSession on a session whose map is nil changes nothing.
C23_GetIdempotent ==
    [][LET s == sop'.s
           me == <<s, WorkspaceDir>>
           same == sop.s = s /\ sop.dir = WorkspaceDir /\ WorkspaceDir' = WorkspaceDir
       IN /\ sop'.op = "GetWorkspaceSession" =>
                 /\ Cardinality({k \in EntryKeys(sessions') : k = me}) = 1
                 /\ EntryAddr(sessions', me) = sop'.ret
                 /\ (same /\ sop.op \in {"GetWorkspaceSession", "SetEntry"}) =>
                        /\ sop'.ret = sop.ret
                        /\ heap'[sop'.ret] = heap[sop.ret]
                        /\ sessions' = sessions /\ heap' = heap
                 /\ (same /\ sop.op = "RemoveWorkspaceSession") =>
                        /\ sop'.ret \notin DOMAIN heap
                        /\ heap'[sop'.ret] = NewWorkspaceSession
          /\ (sop'.op = "RemoveWorkspaceSession" /\ ~sessions[s].made) =>
                 sessions' = sessions /\ heap' = heap]_vars

\* The second GetWorkspaceSession of a session under one workspace has returned
\* the entry in which an access code and a captcha were stored after the first.
C23_Witness ==
    /\ sop.op = "GetWorkspaceSession" /\ sop.dir = WorkspaceDir
    /\ sop.ret \in DOMAIN heap
    /\ heap[sop.ret] = [AccessAuthCode |-> "code", Captcha |-> "captcha"]
    /\ sessions[sop.s].m[WorkspaceDir] = sop.ret
====
